---- MODULE Spec2Model ----
(***************************************************************************)
(* Model of the BlogGenerator component: the two Gemini facade functions   *)
(* (generateBlogContent, generateImage), the fetchPostsAndImages effect    *)
(* with its Promise.all fan-out/fan-in, and the React state that selects   *)
(* the rendered view.                                                      *)
(***************************************************************************)
EXTENDS Integers, Sequences, FiniteSets, TLC

(* ---------------- bounds of the explored inputs ---------------- *)

\* largest number of elements in the JSON array the text endpoint answers with
MaxDrafts == 2
\* largest number of parts in candidates[0].content.parts of an image answer
MaxParts == 2

(* ---------------- JavaScript values ---------------- *)

Null == [type |-> "null"]
Undefined == [type |-> "undefined"]
Str(s) == [type |-> "string", s |-> s]
Arr(items) == [type |-> "array", items |-> items]
Obj(fields) == [type |-> "object", fields |-> fields]

\* ToBoolean, as used by `if (x)`, `a && b` and `a || b`
Truthy(v) ==
  CASE v.type = "null" -> FALSE
    [] v.type = "undefined" -> FALSE
    [] v.type = "string" -> v.s # ""
    [] OTHER -> TRUE

\* evaluating `v.prop` throws a TypeError exactly for null and undefined
PropertyAccessThrows(v) == v.type \in {"null", "undefined"}

\* `v.prop` for a value on which the access does not throw
Get(v, prop) ==
  IF v.type = "object" /\ prop \in DOMAIN v.fields THEN v.fields[prop] ELSE Undefined

\* `${v}` inside a template literal
ToStr(v) ==
  CASE v.type = "string" -> v.s
    [] v.type = "undefined" -> "undefined"
    [] v.type = "null" -> "null"
    [] OTHER -> "[object Object]"

(* ---------------- the text endpoint and JSON.parse ---------------- *)

\* object literals the text endpoint may put into its answer; the second one
\* carries an (empty) imageUrl property of its own
DraftP1 == Obj([id |-> Str("p1"), imagePrompt |-> Str("a")])
DraftP2 == Obj([id |-> Str("p2"), imagePrompt |-> Str("b"), imageUrl |-> Str("")])

\* the lexical tokens of response.text; "{p1}" and "{p2}" stand for the text
\* of the two object literals
ScalarTokens == {"null", "{p1}", "{p2}"}
Tokens == ScalarTokens \cup {"[", "]", ","}

ScalarValue(tok) ==
  CASE tok = "{p1}" -> DraftP1
    [] tok = "{p2}" -> DraftP2
    [] OTHER -> Null

\* every response.text of at most MaxTextLen tokens without a nested array
MaxTextLen == 2 * MaxDrafts + 1
Texts ==
  { t \in UNION { [1..n -> Tokens] : n \in 0..MaxTextLen } :
      \A k \in DOMAIN t : (t[k] = "[") => (k = 1) }

\* the tokens between the brackets are  value (, value)*  or nothing
IsElementList(t) ==
  \/ Len(t) = 0
  \/ /\ Len(t) % 2 = 1
     /\ \A k \in 1..Len(t) :
          IF k % 2 = 1 THEN t[k] \in ScalarTokens ELSE t[k] = ","

\* JSON.parse: ok = FALSE stands for the SyntaxError it throws
JSONParse(t) ==
  IF Len(t) = 1 /\ t[1] \in ScalarTokens
    THEN [ok |-> TRUE, val |-> ScalarValue(t[1])]
  ELSE IF Len(t) >= 2 /\ t[1] = "[" /\ t[Len(t)] = "]"
            /\ IsElementList(SubSeq(t, 2, Len(t) - 1))
    THEN LET inner == SubSeq(t, 2, Len(t) - 1)
             n == (Len(inner) + 1) \div 2
         IN [ok |-> TRUE,
             val |-> Arr([i \in 1..n |-> ScalarValue(inner[2 * i - 1])])]
  ELSE [ok |-> FALSE, val |-> Undefined]

\* outcomes of `await ai.models.generateContent(...)` for the text model:
\* the promise rejects, or it fulfils with a response whose text is a token
\* sequence (the empty one also stands for a response without text)
TextResponses ==
  {[status |-> "rejected", text |-> <<>>]}
    \cup { [status |-> "fulfilled", text |-> t] : t \in Texts }

\* variant: the catch clause returns nothing
generateBlogContentNoReturn(resp) ==
  IF resp.status = "rejected" THEN Undefined
  ELSE LET r == JSONParse(resp.text)
       IN IF r.ok THEN r.val ELSE Undefined

generateBlogContent(resp) ==
  IF resp.status = "rejected" THEN Arr(<<>>)
  ELSE LET r == JSONParse(resp.text)
       IN IF r.ok THEN r.val ELSE Arr(<<>>)

(* ---------------- the image endpoint and generateImage ---------------- *)

genericFallbackUrl ==
  "data:image/png;base64,iVBORw0KGgoAAAANSUhEUgAAAAEAAAABCAYAAAAfFcSJAAAADUlEQVR42mNk+M9QDwADagGA38qL+QAAAABJRU5ErkJggg=="

\* the text of the request sent for a draft's imagePrompt
ImageRequestText(imagePrompt) ==
  "Generate a photorealistic, abstract, 16:9 aspect ratio image for a tech blog related to: "
    \o ToStr(imagePrompt)

\* elements of candidates[0].content.parts: a text part, an inline image
\* without mimeType, an inline image with mimeType
TextPart == Obj([text |-> Str("caption")])
InlineJpeg == Obj([inlineData |-> Obj([data |-> Str("d1")])])
InlinePng == Obj([inlineData |-> Obj([mimeType |-> Str("image/png"), data |-> Str("d2")])])
Parts == {TextPart, InlineJpeg, InlinePng}

\* outcomes of `await ai.models.generateContent(...)` for the image model:
\* rejected; fulfilled without candidates[0].content.parts; fulfilled with parts
ImageResponses ==
  {[status |-> "rejected", wellFormed |-> FALSE, parts |-> <<>>],
   [status |-> "fulfilled", wellFormed |-> FALSE, parts |-> <<>>]}
    \cup { [status |-> "fulfilled", wellFormed |-> TRUE, parts |-> ps] :
             ps \in UNION { [1..n -> Parts] : n \in 0..MaxParts } }

\* parts.find(p => p.inlineData): index of the first part whose inlineData is
\* truthy, 0 when there is none
FirstInline(parts) ==
  LET hits == { k \in DOMAIN parts : Truthy(Get(parts[k], "inlineData")) }
  IN IF hits = {} THEN 0 ELSE CHOOSE k \in hits : \A j \in hits : k <= j

\* whether the body of the try block throws: the awaited call rejects, or
\* response.candidates[0].content.parts cannot be read
ImageTryThrows(resp) ==
  \/ resp.status = "rejected"
  \/ ~resp.wellFormed

DataUrl(inlineData) ==
  LET mt == Get(inlineData, "mimeType")
      mimeType == IF Truthy(mt) THEN mt ELSE Str("image/jpeg")
  IN "data:" \o ToStr(mimeType) \o ";base64," \o ToStr(Get(inlineData, "data"))

\* variant: the catch clause returns nothing
generateImageNoFallback(imagePrompt, resp) ==
  IF ImageTryThrows(resp) THEN Undefined
  ELSE IF FirstInline(resp.parts) # 0
    THEN Str(DataUrl(Get(resp.parts[FirstInline(resp.parts)], "inlineData")))
  ELSE Str(genericFallbackUrl)

generateImage(imagePrompt, resp) ==
  IF ImageTryThrows(resp) THEN Str(genericFallbackUrl)
  ELSE IF FirstInline(resp.parts) # 0
    THEN Str(DataUrl(Get(resp.parts[FirstInline(resp.parts)], "inlineData")))
  ELSE Str(genericFallbackUrl)

(* ---------------- the BlogGenerator component ---------------- *)

ErrorMessage ==
  "Failed to fetch content or images. Ensure your API key is correct and check the network."

VARIABLES
  posts,           \* useState([]): the published list of posts
  selectedPost,    \* useState(null): the post opened in the detail view
  isLoading,       \* useState(true)
  error,           \* useState(null)
  pc,              \* position of fetchPostsAndImages
  textCalls,       \* number of requests sent to the text model
  textOutcome,     \* how the try block of generateBlogContent ended
  generatedPosts,  \* the value generateBlogContent resolved with
  imageReq,        \* per element of generatedPosts: the request text sent ("" if none)
  imagePending,    \* indices whose image request has not settled yet
  imageUrl,        \* per element: the value generateImage resolved with
  settled,         \* the indices in the order their image calls settled
  lastResp         \* the image endpoint's answer in the latest settle

vars == <<posts, selectedPost, isLoading, error, pc, textCalls, textOutcome,
          generatedPosts, imageReq, imagePending, imageUrl, settled, lastResp>>

pipeline == <<pc, textCalls, textOutcome, generatedPosts, imageReq, imagePending,
              imageUrl, settled, lastResp>>

\* the if-chain of the render function
View ==
  IF isLoading THEN "Loading"
  ELSE IF Truthy(error) THEN "Errored"
  ELSE IF Truthy(selectedPost) THEN "detail"
  ELSE "list"

\* variant: { imageUrl, ...post }
MergeSpreadLast(post, url) ==
  Obj([f \in DOMAIN post.fields \cup {"imageUrl"} |->
         IF f \in DOMAIN post.fields THEN post.fields[f] ELSE url])

\* { ...post, imageUrl }
Merge(post, url) ==
  Obj([f \in DOMAIN post.fields \cup {"imageUrl"} |->
         IF f = "imageUrl" THEN url ELSE post.fields[f]])

\* variant: the results in the order in which the promises settled
PromiseAllSettleOrder(results, order) == [k \in DOMAIN results |-> results[order[k]]]

\* variant: Promise.race, the barrier opens at the first settle
AnySettled(all, pending) == all = {} \/ pending # all

\* Promise.all resolves once none of the promises passed in is pending any more
AllSettled(all, pending) == all \cap pending = {}

\* Promise.all: the results in the order of the promises passed in, whatever
\* the order in which they settled
PromiseAll(results, order) == [k \in DOMAIN results |-> results[k]]

\* generatedPosts.map(...) throws for a value that is not an array
MapThrows(gp) == gp.type # "array"

\* the indices whose callback throws at post.imagePrompt before any request
RejectedCallbacks(gp) == { i \in DOMAIN gp.items : PropertyAccessThrows(gp.items[i]) }

\* whether the try block of fetchPostsAndImages ends in its catch clause
PipelineThrows(gp) == MapThrows(gp) \/ RejectedCallbacks(gp) # {}

Init ==
  /\ posts = <<>>
  /\ selectedPost = Null
  /\ isLoading = TRUE
  /\ error = Null
  /\ pc = "mount"
  /\ textCalls = 0
  /\ textOutcome = "none"
  /\ generatedPosts = Undefined
  /\ imageReq = <<>>
  /\ imagePending = {}
  /\ imageUrl = <<>>
  /\ settled = <<>>
  /\ lastResp = [status |-> "rejected", wellFormed |-> FALSE, parts |-> <<>>]

\* variant: useEffect without the [] dependency list, run after every render
MountEveryRender ==
  /\ pc \in {"mount", "done"}
  /\ isLoading' = TRUE
  /\ error' = Null
  /\ textCalls' = textCalls + 1
  /\ pc' = "awaitText"
  /\ UNCHANGED <<posts, selectedPost, textOutcome, generatedPosts, imageReq,
                 imagePending, imageUrl, settled, lastResp>>

\* useEffect(..., []) after the first render: fetchPostsAndImages runs up to
\* the await of generateBlogContent
Mount ==
  /\ pc = "mount"
  /\ isLoading' = TRUE
  /\ error' = Null
  /\ textCalls' = textCalls + 1
  /\ pc' = "awaitText"
  /\ UNCHANGED <<posts, selectedPost, textOutcome, generatedPosts, imageReq,
                 imagePending, imageUrl, settled, lastResp>>

\* variant: no finally clause
CatchNoFinally ==
  /\ error' = Str(ErrorMessage)
  /\ UNCHANGED <<isLoading, posts>>

\* catch (err) { setError(...) } finally { setIsLoading(false) }
CatchFinally ==
  /\ error' = Str(ErrorMessage)
  /\ isLoading' = FALSE
  /\ UNCHANGED posts

\* setPosts(postsWithImages) ... finally { setIsLoading(false) }
PublishFinally(gp, urls, order) ==
  /\ posts' = PromiseAll([k \in DOMAIN urls |-> Merge(gp.items[k], urls[k])], order)
  /\ isLoading' = FALSE
  /\ UNCHANGED error

\* the text call settles: generateBlogContent resolves, and fetchPostsAndImages
\* runs on through map and Promise.all to its next await or to its end
TextSettles ==
  /\ pc = "awaitText"
  /\ \E resp \in TextResponses :
       LET gp == generateBlogContent(resp)
       IN /\ textOutcome' = IF resp.status = "rejected" THEN "rejected"
                            ELSE IF JSONParse(resp.text).ok THEN "parsed"
                            ELSE "syntaxError"
          /\ generatedPosts' = gp
          /\ IF MapThrows(gp)
               THEN /\ CatchFinally
                    /\ pc' = "done"
                    /\ UNCHANGED <<imageReq, imagePending, imageUrl>>
               ELSE /\ imageReq' = [i \in DOMAIN gp.items |->
                                      IF i \in RejectedCallbacks(gp) THEN ""
                                      ELSE ImageRequestText(Get(gp.items[i], "imagePrompt"))]
                    /\ imagePending' = DOMAIN gp.items \ RejectedCallbacks(gp)
                    /\ imageUrl' = [i \in DOMAIN gp.items |-> Undefined]
                    /\ IF RejectedCallbacks(gp) # {}
                         THEN CatchFinally /\ pc' = "done"
                         ELSE IF AllSettled(DOMAIN gp.items, imagePending')
                           THEN PublishFinally(gp, <<>>, <<>>) /\ pc' = "done"
                           ELSE pc' = "awaitImages" /\ UNCHANGED <<posts, isLoading, error>>
  /\ UNCHANGED <<selectedPost, textCalls, settled, lastResp>>

\* the image call of element i settles: generateImage resolves, the callback
\* returns the merged post, and when it was the last one Promise.all resolves
\* and fetchPostsAndImages runs to its end
ImageSettles(i) ==
  /\ i \in imagePending
  /\ \E resp \in ImageResponses :
       /\ lastResp' = resp
       /\ imageUrl' = [imageUrl EXCEPT ![i] = generateImage(Get(generatedPosts.items[i], "imagePrompt"), resp)]
  /\ imagePending' = imagePending \ {i}
  /\ settled' = Append(settled, i)
  /\ IF pc = "awaitImages" /\ AllSettled(DOMAIN generatedPosts.items, imagePending')
       THEN PublishFinally(generatedPosts, imageUrl', settled') /\ pc' = "done"
       ELSE UNCHANGED <<posts, isLoading, error, pc>>
  /\ UNCHANGED <<selectedPost, textCalls, textOutcome, generatedPosts, imageReq>>

\* variant: setSelectedPost(post.id)
handleReadMoreStoresId(post) ==
  /\ selectedPost' = Get(post, "id")
  /\ UNCHANGED <<posts, isLoading, error>>
  /\ UNCHANGED pipeline

\* setSelectedPost(post); window.scrollTo(0, 0)
handleReadMore(post) ==
  /\ selectedPost' = post
  /\ UNCHANGED <<posts, isLoading, error>>
  /\ UNCHANGED pipeline

\* onClick of the "Read Full Post" button of the k-th card of the list view
CardClick(k) ==
  /\ View = "list"
  /\ k \in DOMAIN posts
  /\ handleReadMore(posts[k])

\* variant: the back button also clears the list
ClearSelectionAndPosts ==
  /\ View = "detail"
  /\ selectedPost' = Null
  /\ posts' = <<>>
  /\ UNCHANGED <<isLoading, error>>
  /\ UNCHANGED pipeline

\* onClick of "Back to All Posts" in the detail view
ClearSelection ==
  /\ View = "detail"
  /\ selectedPost' = Null
  /\ UNCHANGED <<posts, isLoading, error>>
  /\ UNCHANGED pipeline

Next ==
  \/ Mount
  \/ TextSettles
  \/ \E i \in 1..MaxDrafts : ImageSettles(i)
  \/ \E k \in 1..MaxDrafts : CardClick(k)
  \/ ClearSelection

Spec == Init /\ [][Next]_vars

\* every remote call eventually returns or fails
FairSpec ==
  /\ Spec
  /\ WF_vars(Mount)
  /\ WF_vars(TextSettles)
  /\ \A i \in 1..MaxDrafts : WF_vars(ImageSettles(i))

(* ---------------- properties ---------------- *)

\* the try block of fetchPostsAndImages ran to its end without throwing
PipelineSucceeded == pc = "done" /\ ~Truthy(error)

\* C1: when the pipeline completes without throwing, posts has exactly as
\* many elements as the array generateBlogContent returned, and every
\* element's imageUrl is a non-empty string.
C1_LengthAndImages ==
  PipelineSucceeded =>
    /\ Len(posts) = Len(generatedPosts.items)
    /\ \A k \in DOMAIN posts :
         LET u == Get(posts[k], "imageUrl")
         IN u.type = "string" /\ u.s # ""

C1_Witness ==
  /\ PipelineSucceeded
  /\ Len(posts) = 2
  /\ Get(posts[1], "imageUrl") = Str(genericFallbackUrl)
  /\ Get(posts[2], "id") = Str("p2")
  /\ Get(posts[2], "imageUrl") = Str("data:image/png;base64,d2")

\* C2: whatever the order in which the image calls settle, the k-th post is
\* the k-th draft together with the image reference resolved by the call
\* issued for that draft's imagePrompt.
C2_OrderPreserved ==
  PipelineSucceeded =>
    \A k \in DOMAIN posts :
      LET draft == generatedPosts.items[k]
      IN /\ Get(posts[k], "id") = Get(draft, "id")
         /\ Get(posts[k], "imagePrompt") = Get(draft, "imagePrompt")
         /\ imageReq[k] = ImageRequestText(Get(draft, "imagePrompt"))
         /\ Get(posts[k], "imageUrl") = imageUrl[k]

C2_Witness ==
  /\ PipelineSucceeded
  /\ settled = <<2, 1>>
  /\ Get(posts[1], "id") # Get(posts[2], "id")
  /\ imageUrl[1] # imageUrl[2]

\* C3: posts is the initial empty list or the complete collection; it is
\* written only when every image call has settled, and once non-empty it
\* never changes.
C3_NoPartialCollection ==
  /\ [](posts # <<>> =>
          /\ pc = "done"
          /\ imagePending = {}
          /\ Len(posts) = Len(generatedPosts.items)
          /\ \A k \in DOMAIN posts : Truthy(imageUrl[k]) /\ Get(posts[k], "imageUrl") = imageUrl[k])
  /\ [][posts' # posts => posts = <<>> /\ pc = "awaitImages" /\ imagePending' = {}]_vars

C3_Witness ==
  /\ Len(posts) = 2
  /\ Len(settled) = 2
  /\ pc = "done"

\* the response holds no part with an inlineData, or the call failed
NoInlinePartOrFailed(resp) ==
  \/ resp.status = "rejected"
  \/ ~resp.wellFormed
  \/ \A k \in DOMAIN resp.parts : "inlineData" \notin DOMAIN resp.parts[k].fields

\* C4: every settle of an image call resolves generateImage with a non-empty
\* string, which is the placeholder whenever the response has no inline part
\* or the call failed; and no such settle makes the error state truthy.
C4_ImageTotal ==
  [][\A i \in imagePending \ imagePending' :
       /\ imageUrl'[i].type = "string"
       /\ imageUrl'[i].s # ""
       /\ NoInlinePartOrFailed(lastResp') => imageUrl'[i] = Str(genericFallbackUrl)
       /\ Truthy(error') => Truthy(error)]_vars

C4_Witness ==
  /\ settled # <<>>
  /\ lastResp.status = "rejected"
  /\ imageUrl[settled[Len(settled)]] = Str(genericFallbackUrl)
  /\ View = "list"

\* C5: a rejected text call or a SyntaxError of JSON.parse makes
\* generateBlogContent return the empty array, and the empty array ends in
\* the list view with no posts, no error and no image request.
C5_EmptyOnFailure ==
  /\ textOutcome \in {"rejected", "syntaxError"} => generatedPosts = Arr(<<>>)
  /\ (pc = "done" /\ generatedPosts = Arr(<<>>)) =>
       /\ posts = <<>>
       /\ View = "list"
       /\ ~Truthy(error)
       /\ imageReq = <<>>
       /\ settled = <<>>

C5_Witness ==
  /\ textOutcome = "syntaxError"
  /\ pc = "done"
  /\ View = "list"
  /\ posts = <<>>

\* C6: generateBlogContent always returns an array, for every response of
\* the text endpoint, so that no outcome of the text call ends in the error
\* view.
C6_AlwaysSequence ==
  pc \in {"awaitImages", "done"} =>
    /\ generatedPosts.type = "array"
    /\ ~Truthy(error)

\* C7: when the try block of fetchPostsAndImages throws, the view is Errored
\* with the fixed message and posts is empty; and once Errored, the view
\* stays Errored and posts, selectedPost and error never change.
C7_ErroredTerminal ==
  /\ []((pc = "done" /\ PipelineThrows(generatedPosts)) =>
          /\ View = "Errored"
          /\ error = Str(ErrorMessage)
          /\ posts = <<>>
          /\ selectedPost = Null)
  /\ [][View = "Errored" =>
          /\ View' = "Errored"
          /\ UNCHANGED <<posts, selectedPost, error, isLoading>>]_vars

C7_Witness ==
  /\ View = "Errored"
  /\ settled # <<>>
  /\ imagePending = {}

\* C8: every step that changes the selection leaves posts, isLoading, error
\* and the pipeline (so every remote request) unchanged; selecting leads from
\* the list view to the detail view and clearing leads back to the list view.
C8_SelectClearRoundTrip ==
  [][selectedPost' # selectedPost =>
       /\ UNCHANGED <<posts, isLoading, error>>
       /\ UNCHANGED pipeline
       /\ \/ View = "list" /\ View' = "detail"
          \/ View = "detail" /\ View' = "list" /\ selectedPost' = Null]_vars

C8_Witness ==
  /\ View = "detail"
  /\ Len(posts) = 2
  /\ selectedPost = posts[2]

\* C9: the selection is null or an element of posts, and it is present only
\* when the view is neither Loading nor Errored.
C9_SelectionInCollection ==
  /\ selectedPost = Null \/ \E k \in DOMAIN posts : posts[k] = selectedPost
  /\ selectedPost # Null => ~isLoading /\ ~Truthy(error) /\ View = "detail"

C9_Witness ==
  /\ Len(posts) = 2
  /\ posts[1] # posts[2]
  /\ selectedPost = posts[1]

====
